---- MODULE Spec2Model ----
(***************************************************************************)
(* Model of poui (src/src/lib.rs): Poui<N>, a point on the unit interval   *)
(* backed by a primitive integer N, with wrapping addition, widen /        *)
(* multiply / shorten multiplication and conversion to f32 / f64.          *)
(*                                                                         *)
(* TLC's integers are 32 bits wide, so a backing integer is modelled by    *)
(* its two's-complement bit pattern: a little-endian sequence of 8-bit     *)
(* limbs, bits/8 limbs long.  Every primitive of the integer types the     *)
(* code uses (wrapping_add, `as` casts, `>>`, `*`) is written on that      *)
(* pattern.                                                                *)
(***************************************************************************)
EXTENDS Integers, Sequences, FiniteSets, TLC

VARIABLES ty, lhs, rhs, out, op, panicked, conv, steps

vars == <<ty, lhs, rhs, out, op, panicked, conv, steps>>

\* Longest sequence of add / mul operations applied to one value.
MaxSteps == 2

-----------------------------------------------------------------------------
(* The backing integer types.                                              *)

Ty(b, s) == [bits |-> b, signed |-> s]

Widths == {8, 16, 32, 64, 128}

Types == {Ty(b, s) : b \in Widths, s \in BOOLEAN}

NLimbs(t) == t.bits \div 8

ZeroLimbs(n) == [i \in 1..n |-> 0]

-----------------------------------------------------------------------------
(* Limb arithmetic shared by the integer primitives.                       *)

\* a + b + carry over equally long limb sequences, limb by limb.
RECURSIVE AddLimbs(_, _, _, _)
AddLimbs(a, b, carry, acc) ==
    LET i == Len(acc) + 1 IN
    IF i > Len(a)
    THEN [limbs |-> acc, carry |-> carry]
    ELSE LET s == a[i] + b[i] + carry
         IN  AddLimbs(a, b, s \div 256, Append(acc, s % 256))

\* Bitwise complement.
NotLimbs(a) == [i \in 1..Len(a) |-> 255 - a[i]]

\* Two's-complement negation, same length: ~a + 1.
NegLimbs(a) == AddLimbs(NotLimbs(a), ZeroLimbs(Len(a)), 1, <<>>).limbs

\* Column k (from 0) of the schoolbook product: the sum of a[i+1] * b[k-i+1]
\* over the rows i..hi.
RECURSIVE ColSum(_, _, _, _, _)
ColSum(a, b, k, i, hi) ==
    IF i > hi
    THEN 0
    ELSE a[i + 1] * b[k - i + 1] + ColSum(a, b, k, i + 1, hi)

Max(m, n) == IF m >= n THEN m ELSE n

Min(m, n) == IF m <= n THEN m ELSE n

\* The low n limbs of the product a * b.
RECURSIVE MulCols(_, _, _, _, _)
MulCols(a, b, n, carry, acc) ==
    LET k == Len(acc) IN
    IF k >= n
    THEN acc
    ELSE LET s == ColSum(a, b, k, Max(0, k - Len(b) + 1), Min(k, Len(a) - 1))
                  + carry
         IN  MulCols(a, b, n, s \div 256, Append(acc, s % 256))

\* The number of limbs up to the highest one that is not zero.
RECURSIVE SigLimbs(_, _)
SigLimbs(a, i) == IF i = 0 \/ a[i] # 0 THEN i ELSE SigLimbs(a, i - 1)

\* The low n limbs of the product a * b, the high zero limbs of a and b
\* left out of the columns.
Product(a, b, n) ==
    MulCols(SubSeq(a, 1, SigLimbs(a, Len(a))), SubSeq(b, 1, SigLimbs(b, Len(b))),
            n, 0, <<>>)

IsZero(a) == \A i \in 1..Len(a) : a[i] = 0

\* The sign bit of a pattern read in type t.
IsNegative(x, t) == t.signed /\ x[Len(x)] >= 128

\* |x| as an unsigned pattern of the same length (2^(W-1) for signed MIN).
Magnitude(x, t) == IF IsNegative(x, t) THEN NegLimbs(x) ELSE x

-----------------------------------------------------------------------------
(* Values of the backing types.                                            *)

Zero(t) == ZeroLimbs(NLimbs(t))

one(t) == [i \in 1..NLimbs(t) |-> IF i = 1 THEN 1 ELSE 0]

Pow2(t, k) == [i \in 1..NLimbs(t) |-> IF i = (k \div 8) + 1 THEN 2 ^ (k % 8) ELSE 0]

max_value(t) == [i \in 1..NLimbs(t) |-> IF t.signed /\ i = NLimbs(t) THEN 127 ELSE 255]

min_value(t) == IF t.signed THEN Pow2(t, t.bits - 1) ELSE Zero(t)

AllOnes(t) == [i \in 1..NLimbs(t) |-> 255]

Mixed(t) == [i \in 1..NLimbs(t) |-> (37 * i + 146) % 256]

Mixed2(t) == [i \in 1..NLimbs(t) |-> (91 * i + 11) % 256]

\* The raw values operations are applied to: the boundary values of the
\* type, the fractions the tests use, and two patterns with no structure.
Samples(t) ==
    { Zero(t), one(t), max_value(t), min_value(t), AllOnes(t),
      Pow2(t, t.bits - 1), Pow2(t, t.bits - 2), Pow2(t, t.bits - 4),
      Mixed(t), Mixed2(t) }

-----------------------------------------------------------------------------
(* impl Add for Poui                                                       *)

\* a - b in place of a + b.
wrapping_sub(a, b) == AddLimbs(a, NotLimbs(b), 1, <<>>).limbs

\* The sum clamped to the unsigned range in place of the wrapped sum.
saturating_add(a, b) ==
    LET r == AddLimbs(a, b, 0, <<>>)
    IN  IF r.carry = 1 THEN [i \in 1..Len(a) |-> 255] ELSE r.limbs

\* N::wrapping_add: the sum with the carry out of the top limb dropped.
wrapping_add(a, b) == AddLimbs(a, b, 0, <<>>).limbs

\* Whether the exact sum of a and b is outside type t.
AddOverflows(a, b, t) ==
    IF t.signed
    THEN /\ IsNegative(a, t) = IsNegative(b, t)
         /\ IsNegative(AddLimbs(a, b, 0, <<>>).limbs, t) # IsNegative(a, t)
    ELSE AddLimbs(a, b, 0, <<>>).carry = 1

\* `self.0 + rhs.0` in place of wrapping_add: panics on overflow.
add_checked(a, b, t) ==
    [raw |-> AddLimbs(a, b, 0, <<>>).limbs, panic |-> AddOverflows(a, b, t)]

add(a, b, t) == [raw |-> wrapping_add(a, b), panic |-> FALSE]

-----------------------------------------------------------------------------
(* Widen and Shorten                                                       *)

WidenedType(t) == IF t.bits = 128 THEN t ELSE Ty(2 * t.bits, t.signed)

\* Zero extension whatever the signedness.
widen_zero_extend(x, t) ==
    IF t.bits = 128 THEN x ELSE x \o [i \in 1..NLimbs(t) |-> 0]

\* `self as M`: zero extension of an unsigned value, sign extension of a
\* signed one; `self` for the 128-bit types.
widen(x, t) ==
    IF t.bits = 128
    THEN x
    ELSE LET fill == IF IsNegative(x, t) THEN 255 ELSE 0
         IN  x \o [i \in 1..NLimbs(t) |-> fill]

\* The table with its top end closed on itself: 128 bits shorten to 128.
ShortenedType_closed(t) ==
    IF t.bits = 8 \/ t.bits = 128 THEN t ELSE Ty(t.bits \div 2, t.signed)

ShortenedType(t) == IF t.bits = 8 THEN t ELSE Ty(t.bits \div 2, t.signed)

\* `self >> k` for k a multiple of 8: logical for unsigned, arithmetic for
\* signed.
ShiftRight(x, k, t) ==
    LET d == k \div 8
        fill == IF IsNegative(x, t) THEN 255 ELSE 0
    IN  SubSeq(x, d + 1, Len(x)) \o [i \in 1..d |-> fill]

\* `x as N` to a narrower type: the low limbs.
TruncCast(x, t) == SubSeq(x, 1, NLimbs(t))

\* `self as N` with the shift left out: the low half.
shorten_low(x, t) ==
    IF t.bits = 8 THEN x ELSE TruncCast(x, ShortenedType(t))

\* `(self >> W) as N`; `self` for the 8-bit types.
shorten(x, t) ==
    IF t.bits = 8
    THEN x
    ELSE LET s == ShortenedType(t)
         IN  TruncCast(ShiftRight(x, s.bits, t), s)

-----------------------------------------------------------------------------
(* impl Mul for Poui                                                       *)

\* The bounds N: Widen<Widened = M>, M: Shorten<Shortened = N>.
MulAvailable(t) == ShortenedType(WidenedType(t)) = t

\* `x + y` in place of `x * y`.
Times_plus(x, y, t) ==
    [raw |-> AddLimbs(x, y, 0, <<>>).limbs, panic |-> AddOverflows(x, y, t)]

\* `x * y` in type t, from the exact product of the magnitudes: the
\* operator panics in a build with overflow checks when the product is
\* outside t (unsigned, it needs more than the limbs of t; signed, its
\* magnitude exceeds the largest of its sign), and yields its low bits in a
\* build without.
Times(x, y, t) ==
    LET n == Len(x)
        mag == Product(Magnitude(x, t), Magnitude(y, t), 2 * n)
        neg == IsNegative(x, t) # IsNegative(y, t)
        high == \E i \in (n + 1)..(2 * n) : mag[i] # 0
        low == SubSeq(mag, 1, n)
    IN  [raw |-> IF neg THEN NegLimbs(low) ELSE low,
         panic |-> IF ~t.signed
                   THEN high
                   ELSE \/ high
                        \/ /\ low[n] >= 128
                           /\ ~(neg /\ low = Pow2(t, t.bits - 1))]

mul(a, b, t) ==
    LET M == WidenedType(t)
        product == Times(widen(a, t), widen(b, t), M)
    IN  [raw |-> shorten(product.raw, M), panic |-> product.panic]

-----------------------------------------------------------------------------
(* The floating-point targets.  A float is NaN, an infinity, or the finite *)
(* value (-1)^neg * man * 2^exp, with man a little-endian bit sequence     *)
(* whose lowest and highest bits are 1 (empty for zero), so that equal     *)
(* finite values are equal records.  The two zeros are one value, as they  *)
(* are under `==`.                                                         *)

F32 == [name |-> "f32", digits |-> 24, max_exp |-> 127, min_exp |-> -149]

F64 == [name |-> "f64", digits |-> 53, max_exp |-> 1023, min_exp |-> -1074]

Floats == {F32, F64}

FNaN == [cls |-> "nan"]

FInf(neg) == [cls |-> "inf", neg |-> neg]

FZero == [cls |-> "finite", neg |-> FALSE, man |-> <<>>, exp |-> 0]

\* 2^k as a float value.
FPow2(k) == [cls |-> "finite", neg |-> FALSE, man |-> <<1>>, exp |-> k]

Zeros(n) == [i \in 1..n |-> 0]

\* The bits of a limb sequence, lowest first.
ToBits(x) ==
    [i \in 1..(8 * Len(x)) |-> (x[((i - 1) \div 8) + 1] \div (2 ^ ((i - 1) % 8))) % 2]
        \o <<>>

\* The limbs of a bit sequence whose length is a multiple of 8.
FromBits(b) ==
    [j \in 1..(Len(b) \div 8) |->
        b[8 * j - 7] + 2 * b[8 * j - 6] + 4 * b[8 * j - 5] + 8 * b[8 * j - 4]
        + 16 * b[8 * j - 3] + 32 * b[8 * j - 2] + 64 * b[8 * j - 1]
        + 128 * b[8 * j]]

\* The index of the highest 1 at or below i; 0 when there is none.
RECURSIVE HighBit(_, _)
HighBit(b, i) == IF i = 0 \/ b[i] = 1 THEN i ELSE HighBit(b, i - 1)

\* The index of the lowest 1 at or above i, in a sequence that holds one.
RECURSIVE LowBit(_, _)
LowBit(b, i) == IF b[i] = 1 THEN i ELSE LowBit(b, i + 1)

\* The index of the lowest 0 at or above i; Len(b) + 1 when there is none.
RECURSIVE LowZero(_, _)
LowZero(b, i) == IF i > Len(b) \/ b[i] = 0 THEN i ELSE LowZero(b, i + 1)

\* b + 1.
BitInc(b) ==
    LET k == LowZero(b, 1)
    IN  Zeros(k - 1) \o <<1>> \o SubSeq(b, k + 1, Len(b))

\* The finite value bits * 2^e, exactly.
Finite(neg, bits, e) ==
    LET hi == HighBit(bits, Len(bits)) IN
    IF hi = 0
    THEN FZero
    ELSE LET lo == LowBit(bits, 1)
         IN  [cls |-> "finite", neg |-> neg, man |-> SubSeq(bits, lo, hi),
              exp |-> e + lo - 1]

\* bits * 2^e rounded to the format F, ties to even: at most F.digits
\* significant bits, none below 2^F.min_exp, an infinity above the largest
\* finite value.
RoundFloat(neg, bits, e, F) ==
    LET n == HighBit(bits, Len(bits))
        drop == Max(0, Max(n - F.digits, F.min_exp - e))
        kept == SubSeq(bits, drop + 1, n)
        guard == IF drop >= 1 /\ drop <= n THEN bits[drop] ELSE 0
        sticky == \E i \in 1..Min(drop - 1, n) : bits[i] = 1
        odd == kept # <<>> /\ kept[1] = 1
        m == IF guard = 1 /\ (sticky \/ odd) THEN BitInc(kept) ELSE kept
        top == e + drop + HighBit(m, Len(m)) - 1
    IN  IF top > F.max_exp /\ HighBit(m, Len(m)) > 0
        THEN FInf(neg)
        ELSE Finite(neg, m, e + drop)

\* `x as F` for x of the integer type t.
IntToFloat(x, t, F) == RoundFloat(IsNegative(x, t), ToBits(Magnitude(x, t)), 0, F)

\* a + b in F, for operands of one sign (as_ adds max_value and one).
FAdd(a, b, F) ==
    IF a.cls = "nan" \/ b.cls = "nan"
    THEN FNaN
    ELSE IF a.cls = "inf" \/ b.cls = "inf"
    THEN FInf(IF a.cls = "inf" THEN a.neg ELSE b.neg)
    ELSE LET e0 == Min(a.exp, b.exp)
             x == Zeros(a.exp - e0) \o a.man
             y == Zeros(b.exp - e0) \o b.man
             len == 8 * ((Max(Len(x), Len(y)) \div 8) + 1)
             xl == FromBits(x \o Zeros(len - Len(x)))
             yl == FromBits(y \o Zeros(len - Len(y)))
         IN  RoundFloat(a.neg, ToBits(AddLimbs(xl, yl, 0, <<>>).limbs), e0, F)

\* a / d in F, for d an infinity, a zero, a NaN or a power of two: the
\* divisors max_value + one takes.
FDiv(a, d, F) ==
    CASE a.cls = "nan" \/ d.cls = "nan" -> FNaN
      [] a.cls = "inf" /\ d.cls = "inf" -> FNaN
      [] a.cls = "inf" /\ d.cls = "finite" -> FInf(a.neg # d.neg)
      [] a.cls = "finite" /\ d.cls = "inf" -> FZero
      [] a.cls = "finite" /\ d.cls = "finite" /\ d.man = <<>> ->
            IF a.man = <<>> THEN FNaN ELSE FInf(a.neg # d.neg)
      [] a.cls = "finite" /\ d.cls = "finite" /\ d.man = <<1>> ->
            RoundFloat(a.neg # d.neg, a.man, a.exp - d.exp, F)

-----------------------------------------------------------------------------
(* impl AsPrimitive<F> for Poui<N>                                         *)

\* N::as_(N::max_value()) + N::as_(N::one())
Divisor(t, F) == FAdd(IntToFloat(max_value(t), t, F), IntToFloat(one(t), t, F), F)

as_(x, t, F) == FDiv(IntToFloat(x, t, F), Divisor(t, F), F)

-----------------------------------------------------------------------------
(* The state machine: a Poui of some backing type, and the operations      *)
(* applied to it.  add and mul replace the value by their result; as_,     *)
(* widen and shorten take the value by copy and leave it as it is, so the  *)
(* operations that follow one of them are the operations that follow the   *)
(* state it was applied in, and are taken from there.                      *)

NoConv == [kind |-> "none"]

Init ==
    /\ ty \in Types
    /\ out \in Samples(ty)
    /\ lhs = out
    /\ rhs = out
    /\ op = "new"
    /\ panicked = FALSE
    /\ conv = NoConv
    /\ steps = 0

Add ==
    /\ ~panicked
    /\ conv = NoConv
    /\ steps < MaxSteps
    /\ \E b \in Samples(ty) :
         LET r == add(out, b, ty) IN
         /\ lhs' = out
         /\ rhs' = b
         /\ out' = r.raw
         /\ panicked' = r.panic
    /\ op' = "add"
    /\ conv' = NoConv
    /\ steps' = steps + 1
    /\ UNCHANGED ty

Mul ==
    /\ ~panicked
    /\ conv = NoConv
    /\ steps < MaxSteps
    /\ MulAvailable(ty)
    /\ \E b \in Samples(ty) :
         LET r == mul(out, b, ty) IN
         /\ lhs' = out
         /\ rhs' = b
         /\ out' = r.raw
         /\ panicked' = r.panic
    /\ op' = "mul"
    /\ conv' = NoConv
    /\ steps' = steps + 1
    /\ UNCHANGED ty

\* Poui::as_ for a float target F; the value is left as it is.
As ==
    /\ ~panicked
    /\ conv = NoConv
    /\ \E F \in Floats :
         conv' = [kind |-> "float", F |-> F.name, val |-> as_(out, ty, F)]
    /\ op' = "as_"
    /\ lhs' = out
    /\ rhs' = out
    /\ UNCHANGED <<ty, out, panicked, steps>>

\* Widen::widen on the raw value.
WidenRaw ==
    /\ ~panicked
    /\ conv = NoConv
    /\ conv' = [kind |-> "widen", ty |-> WidenedType(ty), raw |-> widen(out, ty)]
    /\ op' = "widen"
    /\ lhs' = out
    /\ rhs' = out
    /\ UNCHANGED <<ty, out, panicked, steps>>

\* Shorten::shorten on the raw value.
ShortenRaw ==
    /\ ~panicked
    /\ conv = NoConv
    /\ conv' = [kind |-> "shorten", ty |-> ShortenedType(ty), raw |-> shorten(out, ty)]
    /\ op' = "shorten"
    /\ lhs' = out
    /\ rhs' = out
    /\ UNCHANGED <<ty, out, panicked, steps>>

Next == Add \/ Mul \/ As \/ WidenRaw \/ ShortenRaw

Spec == Init /\ [][Next]_vars

-----------------------------------------------------------------------------
(* Exact integer arithmetic the properties are stated against: sums and    *)
(* products that are never reduced, and TLC's own integers for the widths  *)
(* whose values and products fit them.                                     *)

\* The value of a pattern of at most two limbs.
IntOf(x, t) ==
    LET nat == IF Len(x) = 1 THEN x[1] ELSE x[1] + 256 * x[2]
    IN  IF IsNegative(x, t) THEN nat - 2 ^ t.bits ELSE nat

\* v reduced mod 2^W into the range of t.
WrapInt(v, t) ==
    IF t.signed
    THEN ((v + 2 ^ (t.bits - 1)) % (2 ^ t.bits)) - 2 ^ (t.bits - 1)
    ELSE v % (2 ^ t.bits)

\* The exact sum of a and b in two's complement one limb wider than t.
ExactSum(a, b, t) ==
    LET ext(x) == x \o <<(IF IsNegative(x, t) THEN 255 ELSE 0)>>
    IN  AddLimbs(ext(a), ext(b), 0, <<>>).limbs

\* The exact product of a and b: its sign, and its magnitude in one limb
\* more than twice the limbs of t.
ExactProduct(a, b, t) ==
    [neg |-> IsNegative(a, t) # IsNegative(b, t),
     mag |-> Product(Magnitude(a, t), Magnitude(b, t), 2 * NLimbs(t) + 1)]

\* floor(p / 2^W) as a pattern of t.
FloorShift(p, t) ==
    LET n == NLimbs(t)
        q == SubSeq(p.mag, n + 1, 2 * n)
    IN  IF ~p.neg THEN q
        ELSE IF IsZero(SubSeq(p.mag, 1, n)) THEN NegLimbs(q)
        ELSE NotLimbs(q)

\* Whether p lies in the range of the type twice as wide as t.
FitsDoubleWidth(p, t) ==
    LET n == NLimbs(t) IN
    /\ p.mag[2 * n + 1] = 0
    /\ t.signed =>
         \/ p.mag[2 * n] < 128
         \/ /\ p.neg
            /\ p.mag[2 * n] = 128
            /\ IsZero(SubSeq(p.mag, 1, 2 * n - 1))

InRange(x, t) ==
    /\ Len(x) = NLimbs(t)
    /\ \A i \in 1..Len(x) : x[i] \in 0..255
    /\ t.bits <= 16 =>
         IF t.signed
         THEN -(2 ^ (t.bits - 1)) <= IntOf(x, t) /\ IntOf(x, t) < 2 ^ (t.bits - 1)
         ELSE 0 <= IntOf(x, t) /\ IntOf(x, t) < 2 ^ t.bits

\* f < 1 for a finite float that is not negative.
BelowOne(f) == f.man = <<>> \/ f.exp + Len(f.man) <= 0

-----------------------------------------------------------------------------
(* Properties.                                                             *)

\* C1: add(a, b).raw is (a.raw + b.raw) reduced mod 2^W into the backing
\* type's range, for every width and signedness, never clamped and never a
\* fault; add(MAX, 1) is 0 for unsigned and MIN for signed backing.
C1_AddWraps ==
    op = "add" =>
        /\ ~panicked
        /\ out = SubSeq(ExactSum(lhs, rhs, ty), 1, NLimbs(ty))
        /\ ty.bits <= 16 =>
             IntOf(out, ty) = WrapInt(IntOf(lhs, ty) + IntOf(rhs, ty), ty)
        /\ (lhs = max_value(ty) /\ rhs = one(ty)) =>
             out = (IF ty.signed THEN min_value(ty) ELSE Zero(ty))

C1_Witness ==
    /\ op = "add"
    /\ ty = Ty(8, TRUE)
    /\ lhs = max_value(ty)
    /\ rhs = one(ty)
    /\ IntOf(out, ty) = -128

\* C2: through any sequence of add and mul operations the value stays
\* inside its backing type's range and no operation faults.
C2_StaysInRange == ~panicked /\ InRange(out, ty)

C2_Witness ==
    /\ op = "mul"
    /\ steps >= 2
    /\ ty.signed
    /\ lhs = min_value(ty)
    /\ rhs = AllOnes(ty)
    /\ InRange(out, ty)

\* C3: mul(a, b).raw is the top W bits of the exact 2W-bit product: the
\* floor of a.raw * b.raw / 2^W, signed or unsigned; for unsigned W,
\* mul(2^(W-1), 2^(W-1)) = 2^(W-2), mul(2^(W-4), 2^(W-4)) = 2^(W-8) and
\* mul(1, 1) = 0.
C3_MulTopBits ==
    op = "mul" =>
        /\ out = FloorShift(ExactProduct(lhs, rhs, ty), ty)
        /\ ty.bits = 8 =>
             IntOf(out, ty) = (IntOf(lhs, ty) * IntOf(rhs, ty)) \div 256
        /\ ~ty.signed =>
             /\ (lhs = Pow2(ty, ty.bits - 1) /\ rhs = lhs) => out = Pow2(ty, ty.bits - 2)
             /\ (lhs = Pow2(ty, ty.bits - 4) /\ rhs = lhs) => out = Pow2(ty, ty.bits - 8)
             /\ (lhs = one(ty) /\ rhs = lhs) => out = Zero(ty)

C3_Witness ==
    /\ op = "mul"
    /\ ty = Ty(64, TRUE)
    /\ lhs = Mixed(ty)
    /\ rhs = Pow2(ty, ty.bits - 2)
    /\ IsNegative(out, ty)

\* C4: in mul the product of the two widened operands lies in the range of
\* the double-width type, signed MIN * MIN included, so mul never panics.
C4_WidenedProductFits ==
    op = "mul" =>
        /\ ~panicked
        /\ FitsDoubleWidth(ExactProduct(lhs, rhs, ty), ty)
        /\ ty.bits = 8 =>
             LET p == IntOf(lhs, ty) * IntOf(rhs, ty)
             IN  IF ty.signed THEN -32768 <= p /\ p <= 32767
                 ELSE 0 <= p /\ p <= 65535

C4_Witness ==
    /\ op = "mul"
    /\ steps = 1
    /\ ty = Ty(64, TRUE)
    /\ lhs = min_value(ty)
    /\ rhs = min_value(ty)
    /\ ~panicked

\* C5: for signed backing, where x denotes x.raw / 2^(W-1), mul is the
\* product of the fractions: one-half times one-half is one-quarter,
\* mul(2^(W-2), 2^(W-2)) = 2^(W-3).
C5_SignedHalfTimesHalf ==
    (op = "mul" /\ ty.signed /\ lhs = Pow2(ty, ty.bits - 2) /\ rhs = lhs) =>
        out = Pow2(ty, ty.bits - 3)

\* C6: add(a, 0) = a and add(a, b) = add(b, a), also when the sum wraps.
C6_AddCommutesZeroIdentity ==
    op = "add" =>
        /\ out = add(rhs, lhs, ty).raw
        /\ rhs = Zero(ty) => out = lhs
        /\ lhs = Zero(ty) => out = rhs

C6_Witness ==
    /\ op = "add"
    /\ ~ty.signed
    /\ lhs = max_value(ty)
    /\ rhs = Pow2(ty, ty.bits - 1)
    /\ out = max_value(Ty(ty.bits, TRUE))

\* C7: mul(a, 0) = 0 and mul(0, a) = 0 for every a, MAX, signed MIN and
\* negative a included.
C7_ZeroAbsorbs ==
    op = "mul" =>
        /\ rhs = Zero(ty) => out = Zero(ty)
        /\ lhs = Zero(ty) => out = Zero(ty)

C7_Witness ==
    /\ op = "mul"
    /\ ty.signed
    /\ lhs = AllOnes(ty)
    /\ rhs = Zero(ty)
    /\ out = Zero(ty)

\* C8: to_float(0) = 0.0 and to_float(2^(W-1)) = 0.5 for every unsigned
\* width, to_float(2^(W-2)) = 0.5 for signed backing, for f32 and f64.
C8_FloatBoundary ==
    op = "as_" =>
        /\ (~ty.signed /\ out = Zero(ty)) => conv.val = FZero
        /\ (~ty.signed /\ out = Pow2(ty, ty.bits - 1)) => conv.val = FPow2(-1)
        /\ (ty.signed /\ out = Pow2(ty, ty.bits - 2)) => conv.val = FPow2(-1)

\* C9: for unsigned backing, every raw value, f32 and f64, to_float is a
\* finite f with 0 <= f < 1.
C9_UnsignedFloatBelowOne ==
    (op = "as_" /\ ~ty.signed) =>
        /\ conv.val.cls = "finite"
        /\ ~conv.val.neg
        /\ BelowOne(conv.val)

\* C10 as stated: the 128-bit types widen to themselves and shorten to
\* themselves, Shorten of Widen(N) is N for every width, and mul is
\* available wherever add is.
C10_TableClosedAtTop ==
    /\ (op = "widen" /\ ty.bits = 128) => (conv.ty = ty /\ conv.raw = out)
    /\ (op = "shorten" /\ ty.bits = 128) => (conv.ty = ty /\ conv.raw = out)
    /\ ShortenedType(WidenedType(ty)) = ty
    /\ MulAvailable(ty)

\* C10 as amended: the 128-bit types widen to themselves and shorten to the
\* top half in the 64-bit type; the 8-bit types shorten to themselves;
\* Shorten of Widen(N) is N exactly for the widths 8, 16, 32 and 64, and
\* mul is applied to those widths only.
C10_TableClosedAtBottom ==
    /\ (op = "widen" /\ ty.bits = 128) => (conv.ty = ty /\ conv.raw = out)
    /\ (op = "shorten" /\ ty.bits = 128) =>
         /\ conv.ty = Ty(64, ty.signed)
         /\ conv.raw = SubSeq(out, 9, 16)
    /\ (op = "shorten" /\ ty.bits = 8) => (conv.ty = ty /\ conv.raw = out)
    /\ (ShortenedType(WidenedType(ty)) = ty) <=> (ty.bits \in {8, 16, 32, 64})
    /\ op = "mul" => ty.bits \in {8, 16, 32, 64}

C10_Witness ==
    /\ op = "shorten"
    /\ ty = Ty(128, FALSE)
    /\ out = Pow2(ty, 127)
    /\ conv.ty = Ty(64, FALSE)
    /\ conv.raw = Pow2(conv.ty, 63)

====
